---- MODULE Spec2Model ----
(***************************************************************************)
(* Model of the conference attendee scraper:                               *)
(*   - Client.ListProfiles          (listing response -> stubs, HasNext)   *)
(*   - Scraper.ScrapeAllProfiles    (the page walk)                        *)
(*   - Matcher.EnrichProfiles / findLinkedInCandidates / searchOnce        *)
(*                                                                         *)
(* Text on which the code calls strings.TrimSpace or strings.Contains      *)
(* (names, companies, links, queries) is a sequence of tokens; the token   *)
(* " " is white space.  Attendee identifiers are only ever compared with   *)
(* the empty string and are atomic strings.                                *)
(***************************************************************************)
EXTENDS Integers, Sequences, FiniteSets, TLC

VARIABLES
    \* ---- Client.ListProfiles applied to one response
    lpArgs,     \* [items, pageSize]: decoded apiResp.Data ids and the pageSize argument
    lpRes,      \* the ListProfilesResult, once returned
    \* ---- Matcher.searchOnce applied to one response
    soItems,    \* sr.Items: the links of one search response
    soUrls,     \* the returned candidate list, once returned
    \* ---- Scraper.ScrapeAllProfiles
    scraper,    \* the Scraper value: ClientNil, EventID, PageSize (after line 28)
    maxPages,   \* the maxPages argument
    backend,    \* the conference backend: any, or one serving a fixed attendee list
    wpc,        \* position in ScrapeAllProfiles
    page,       \* local page
    res,        \* local res, the ListProfilesResult of the current page
    pending,    \* the stubs of res.Profiles the range loop has not reached yet
    all,        \* local all
    wret,       \* the returned ([]Profile, error)
    calls,      \* the backend requests issued so far, with their outcomes
    \* ---- Matcher.EnrichProfiles
    enabled,    \* m.enabled
    profiles,   \* the profiles argument
    epc,        \* position in EnrichProfiles
    out,        \* local out
    ei,         \* loop index i (1-based)
    queries,    \* findLinkedInCandidates: the queries not tried yet
    searches,   \* the search requests issued so far, with their outcomes
    eret        \* the returned ([]Profile, error)

listVars   == <<lpArgs, lpRes>>
searchVars == <<soItems, soUrls>>
walkVars   == <<scraper, maxPages, backend, wpc, page, res, pending, all, wret, calls>>
enrichVars == <<enabled, profiles, epc, out, ei, queries, searches, eret>>
vars       == <<listVars, searchVars, walkVars, enrichVars>>

-----------------------------------------------------------------------------
(* Bounds *)

\* most items in one listing response of the walk
MaxItems == 2
\* most attendees a backend with a fixed attendee list holds
MaxAttendees == 4
\* the walk's page counter is capped: no listing call for a page beyond it
MaxPage == 3
\* largest page-count ceiling passed as maxPages
MaxCeiling == 2
\* ListProfiles on its own: most items, largest pageSize
ListMaxItems == 3
ListMaxSize == 3
\* searchOnce on its own: most links in one search response
SearchMaxLinks == 3
\* enrichment: most input profiles, most links in one search response
MaxProfiles == 2
MaxLinks == 2

\* scraper.go:28
DefaultPageSize == 50

-----------------------------------------------------------------------------
(* Values *)

\* a value not there yet (a function that has not returned) and one that is
None    == <<>>
Some(x) == <<x>>
NoErr   == "nil"

\* all sequences over S of length at most n
SeqUpTo(S, n) == UNION { [1..k -> S] : k \in 0..n }

\* attendee ids a listing item may carry ("" is an item without id)
Ids == {"", "a", "b", "c"}

\* strings.TrimSpace
RECURSIVE TrimLeft(_)
TrimLeft(s) == IF s # <<>> /\ Head(s) = " " THEN TrimLeft(Tail(s)) ELSE s

RECURSIVE TrimRight(_)
TrimRight(s) ==
    IF s # <<>> /\ s[Len(s)] = " " THEN TrimRight(SubSeq(s, 1, Len(s) - 1)) ELSE s

TrimSpace(s) == TrimRight(TrimLeft(s))

\* strings.Contains
Contains(s, sub) ==
    \E k \in 1..(Len(s) - Len(sub) + 1) : SubSeq(s, k, k + Len(sub) - 1) = sub

\* types.go: Profile
Profile(id, name, company, url, possible) ==
    [ID |-> id, Name |-> name, Company |-> company,
     LinkedInURL |-> url, PossibleLinkedInURLs |-> possible]

Stub(id) == Profile(id, <<>>, <<>>, <<>>, <<>>)

-----------------------------------------------------------------------------
(* Client.ListProfiles: from the decoded response to the result *)

\* part_001:139-147: the stubs kept from apiResp.Data
RECURSIVE StubsOf(_)
StubsOf(items) ==
    IF items = <<>> THEN <<>>
    ELSE IF Head(items) = "" THEN StubsOf(Tail(items))
    ELSE <<Stub(Head(items))>> \o StubsOf(Tail(items))

\* a ListProfiles that counts the kept stubs instead of the response's items
ListProfilesCountingStubs(items, pageSize) ==
    [Profiles |-> StubsOf(items), HasNext |-> Len(StubsOf(items)) = pageSize]

\* a ListProfiles that reports more pages whenever the page is not empty
ListProfilesNextIfAny(items, pageSize) ==
    [Profiles |-> StubsOf(items), HasNext |-> Len(items) > 0]

ListProfiles(items, pageSize) ==
    [Profiles |-> StubsOf(items), HasNext |-> Len(items) = pageSize]

-----------------------------------------------------------------------------
(* Matcher.searchOnce: from the decoded response to the candidate list *)

PersonalPat == <<"linkedin.com/", "in/">>
LinkedInPat == <<"linkedin.com/">>

\* the loop of part_001:446-456 followed by the append of line 459
RECURSIVE CandidateLoop(_, _, _)
CandidateLoop(items, personal, other) ==
    IF items = <<>> THEN personal \o other
    ELSE LET link == TrimSpace(Head(items)) IN
         IF link = <<>> THEN CandidateLoop(Tail(items), personal, other)
         ELSE IF Contains(link, PersonalPat)
              THEN CandidateLoop(Tail(items), Append(personal, link), other)
         ELSE IF Contains(link, LinkedInPat)
              THEN CandidateLoop(Tail(items), personal, Append(other, link))
         ELSE CandidateLoop(Tail(items), personal, other)

\* a searchOnce that keeps the search engine's order
RECURSIVE CandidatesInResultOrder(_)
CandidatesInResultOrder(items) ==
    IF items = <<>> THEN <<>>
    ELSE LET link == TrimSpace(Head(items)) IN
         IF link # <<>> /\ Contains(link, LinkedInPat)
         THEN <<link>> \o CandidatesInResultOrder(Tail(items))
         ELSE CandidatesInResultOrder(Tail(items))

Candidates(items) == CandidateLoop(items, <<>>, <<>>)

-----------------------------------------------------------------------------
(* Values the variables of a component hold while another one is checked *)

\* a backend whose answers are not known beforehand
AnyBackend == [consistent |-> FALSE, attendees |-> <<>>]

ListIdle ==
    /\ lpArgs = [items |-> <<>>, pageSize |-> 0]
    /\ lpRes = None

SearchIdle ==
    /\ soItems = <<>>
    /\ soUrls = None

WalkIdle ==
    /\ scraper = [ClientNil |-> TRUE, EventID |-> "", PageSize |-> 0]
    /\ maxPages = 0
    /\ backend = AnyBackend
    /\ wpc = "idle"
    /\ page = 0
    /\ res = [Profiles |-> <<>>, HasNext |-> FALSE]
    /\ pending = <<>>
    /\ all = <<>>
    /\ wret = None
    /\ calls = <<>>

EnrichIdle ==
    /\ enabled = FALSE
    /\ profiles = <<>>
    /\ epc = "idle"
    /\ out = <<>>
    /\ ei = 0
    /\ queries = <<>>
    /\ searches = <<>>
    /\ eret = None

-----------------------------------------------------------------------------
(* Client.ListProfiles applied to every small response *)

InitList ==
    /\ lpArgs \in [items : SeqUpTo(Ids, ListMaxItems), pageSize : 0..ListMaxSize]
    /\ lpRes = None
    /\ SearchIdle /\ WalkIdle /\ EnrichIdle

CallListProfiles ==
    /\ lpRes = None
    /\ lpRes' = Some(ListProfiles(lpArgs.items, lpArgs.pageSize))
    /\ UNCHANGED <<lpArgs, searchVars, walkVars, enrichVars>>

NextList == CallListProfiles

SpecList == InitList /\ [][NextList]_vars

\* C3: for every page size s, ListProfiles reports HasNext = TRUE when the
\* listing response holds exactly s items and HasNext = FALSE when it holds
\* fewer than s items; the items of the response are counted, not the stubs
\* kept once the items with an empty id are dropped.
HasNextCountsResponseItems ==
    lpRes # None =>
        /\ Len(lpArgs.items) = lpArgs.pageSize => lpRes[1].HasNext
        /\ Len(lpArgs.items) < lpArgs.pageSize => ~lpRes[1].HasNext

\* a full page with an item without id: fewer stubs than the page size, HasNext set
FullPageWithDroppedItem ==
    /\ lpRes # None
    /\ lpArgs.pageSize = 2
    /\ lpArgs.items = <<"", "a">>
    /\ Len(lpRes[1].Profiles) = 1
    /\ lpRes[1].HasNext

-----------------------------------------------------------------------------
(* Matcher.searchOnce applied to every small response *)

Li(rest) == <<"https://", "linkedin.com/">> \o rest

\* links a search response may carry
SearchLinks ==
    { Li(<<"company/", "x">>), Li(<<"in/", "y">>), Li(<<"in/", "z">>),
      <<" ">> \o Li(<<"in/", "y">>) \o <<" ">>,
      <<"https://", "example.com/", "in/", "y">>,
      <<" ">>, <<>> }

InitSearch ==
    /\ soItems \in SeqUpTo(SearchLinks, SearchMaxLinks)
    /\ soUrls = None
    /\ ListIdle /\ WalkIdle /\ EnrichIdle

CallSearchOnce ==
    /\ soUrls = None
    /\ soUrls' = Some(Candidates(soItems))
    /\ UNCHANGED <<soItems, listVars, walkVars, enrichVars>>

NextSearch == CallSearchOnce

SpecSearch == InitSearch /\ [][NextSearch]_vars

TrimmedLinks(items) == [k \in DOMAIN items |-> TrimSpace(items[k])]
IsPersonalLink(link) == link # <<>> /\ Contains(link, PersonalPat)
IsOtherLink(link) ==
    link # <<>> /\ Contains(link, LinkedInPat) /\ ~Contains(link, PersonalPat)

ExampleResults ==
    << Li(<<"company/", "x">>), Li(<<"in/", "y">>), Li(<<"in/", "z">>) >>
ExampleCandidates ==
    << Li(<<"in/", "y">>), Li(<<"in/", "z">>), Li(<<"company/", "x">>) >>

-----------------------------------------------------------------------------
(* Scraper.ScrapeAllProfiles *)

\* the errors a Client call returns: transport, status, decoding
Errs == {"request", "status", "decode"}

\* Client.GetAttendeeProfile on a successful response: the backend answers
\* with the attendee asked for, whose user record is found or not
DetailNames == {<<"Ann">>}
DetailProfiles(id) == { Profile(id, n, <<>>, <<>>, <<>>) : n \in DetailNames }

ListCall(p, size, err, items) ==
    [kind |-> "list", page |-> p, size |-> size, err |-> err, items |-> items]
DetailCall(id, err, got) ==
    [kind |-> "detail", id |-> id, err |-> err, got |-> got]

\* scraper.go:56-59: the stubs the range loop fetches
RangeStubs(stubs) == SelectSeq(stubs, LAMBDA stub : stub.ID # "")

\* a walk that fetches every item of the response, with or without id
StubsOfEveryItem(items, pageSize) == [k \in DOMAIN items |-> Stub(items[k])]

\* the stubs fetched for one listing response: those ListProfiles keeps and
\* the range loop does not skip
StubsToFetch(items, pageSize) == RangeStubs(ListProfiles(items, pageSize).Profiles)

Return(ps, err) ==
    /\ wret' = Some([profiles |-> ps, err |-> err])
    /\ wpc' = "done"

\* the configured Scraper.PageSize: unset, or a small page
PageSizes == {0, 1, 2}

InitWalk ==
    /\ scraper \in [ClientNil : BOOLEAN, EventID : {"", "AMS25"},
                    PageSize : PageSizes]
    /\ maxPages \in -1..MaxCeiling
    /\ backend = AnyBackend
    /\ wpc = "start"
    /\ page = 0
    /\ res = [Profiles |-> <<>>, HasNext |-> FALSE]
    /\ pending = <<>>
    /\ all = <<>>
    /\ wret = None
    /\ calls = <<>>
    /\ ListIdle /\ SearchIdle /\ EnrichIdle

\* a ceiling that lets one page too many through
AtCeilingOnePageLate == maxPages > 0 /\ page > maxPages + 1

\* scraper.go:38: the page-count ceiling is reached
AtCeiling == maxPages > 0 /\ page > maxPages

\* scraper.go:21-35
Start ==
    /\ wpc = "start"
    /\ IF scraper.ClientNil
       THEN Return(<<>>, "scraper client is nil") /\ UNCHANGED <<scraper, page>>
       ELSE IF scraper.EventID = ""
       THEN Return(<<>>, "event ID is empty") /\ UNCHANGED <<scraper, page>>
       ELSE /\ scraper' = [scraper EXCEPT !.PageSize =
                              IF @ <= 0 THEN DefaultPageSize ELSE @]
            /\ page' = 1
            /\ wpc' = "loop"
            /\ UNCHANGED wret
    /\ UNCHANGED <<maxPages, backend, res, pending, all, calls, listVars, searchVars, enrichVars>>

\* scraper.go:38-40, 82-84
CeilingReached ==
    /\ wpc = "loop"
    /\ AtCeiling
    /\ Return(all, NoErr)
    /\ UNCHANGED <<scraper, maxPages, backend, page, res, pending, all, calls,
                   listVars, searchVars, enrichVars>>

\* the decoded listing responses: the backend answers a request for a page of
\* pageSize items with at most that many items, with or without id
ListResponses(pageSize) ==
    SeqUpTo(Ids, IF pageSize < MaxItems THEN pageSize ELSE MaxItems)

\* part_001:111-116: the page a backend holding the attendees att answers to
\* page[number] = p, page[size] = size
ServedPage(att, p, size) ==
    LET first == (p - 1) * size + 1
        last  == IF p * size < Len(att) THEN p * size ELSE Len(att)
    IN  IF first > last THEN <<>> ELSE SubSeq(att, first, last)

\* the decoded responses the listing call of the current page may get
PageAnswers ==
    IF backend.consistent
    THEN {ServedPage(backend.attendees, page, scraper.PageSize)}
    ELSE ListResponses(scraper.PageSize)

\* scraper.go:44-47: the listing call fails
ListPageFails ==
    /\ wpc = "loop"
    /\ ~AtCeiling
    /\ page <= MaxPage
    /\ \E e \in Errs :
          /\ calls' = Append(calls, ListCall(page, scraper.PageSize, e, <<>>))
          /\ Return(<<>>, e)
    /\ UNCHANGED <<scraper, maxPages, backend, page, res, pending, all,
                   listVars, searchVars, enrichVars>>

\* scraper.go:44-54: the listing call succeeds
ListPage ==
    /\ wpc = "loop"
    /\ ~AtCeiling
    /\ page <= MaxPage
    /\ \E items \in PageAnswers :
          LET r == ListProfiles(items, scraper.PageSize) IN
          /\ calls' = Append(calls, ListCall(page, scraper.PageSize, NoErr, items))
          /\ res' = r
          /\ IF Len(r.Profiles) = 0
             THEN Return(all, NoErr) /\ UNCHANGED pending
             ELSE /\ pending' = StubsToFetch(items, scraper.PageSize)
                  /\ wpc' = "stubs"
                  /\ UNCHANGED wret
    /\ UNCHANGED <<scraper, maxPages, backend, page, all, listVars, searchVars, enrichVars>>

\* a walk that hands back what it has collected when a detail fetch fails
FetchDetailFailsKeepingAll ==
    /\ wpc = "stubs"
    /\ pending # <<>>
    /\ LET id == Head(pending).ID IN
       \E e \in (IF id = "" THEN {"attendeeID is empty"} ELSE Errs) :
          /\ calls' = Append(calls, DetailCall(id, e, <<>>))
          /\ Return(all, e)
    /\ UNCHANGED <<scraper, maxPages, backend, page, res, pending, all,
                   listVars, searchVars, enrichVars>>

\* scraper.go:63-66: GetAttendeeProfile fails (part_001:162-164 for an empty id)
FetchDetailFails ==
    /\ wpc = "stubs"
    /\ pending # <<>>
    /\ LET id == Head(pending).ID IN
       \E e \in (IF id = "" THEN {"attendeeID is empty"} ELSE Errs) :
          /\ calls' = Append(calls, DetailCall(id, e, <<>>))
          /\ Return(<<>>, e)
    /\ UNCHANGED <<scraper, maxPages, backend, page, res, pending, all,
                   listVars, searchVars, enrichVars>>

\* a walk that puts each fetched profile in front of the ones it has
FetchDetailPrepending ==
    /\ wpc = "stubs"
    /\ pending # <<>>
    /\ Head(pending).ID # ""
    /\ \E prof \in DetailProfiles(Head(pending).ID) :
          /\ calls' = Append(calls, DetailCall(Head(pending).ID, NoErr, <<prof>>))
          /\ all' = <<prof>> \o all
    /\ pending' = Tail(pending)
    /\ UNCHANGED <<scraper, maxPages, backend, wpc, page, res, wret,
                   listVars, searchVars, enrichVars>>

\* scraper.go:63-68: GetAttendeeProfile succeeds
FetchDetail ==
    /\ wpc = "stubs"
    /\ pending # <<>>
    /\ Head(pending).ID # ""
    /\ \E prof \in DetailProfiles(Head(pending).ID) :
          /\ calls' = Append(calls, DetailCall(Head(pending).ID, NoErr, <<prof>>))
          /\ all' = Append(all, prof)
    /\ pending' = Tail(pending)
    /\ UNCHANGED <<scraper, maxPages, backend, wpc, page, res, wret,
                   listVars, searchVars, enrichVars>>

\* a walk that goes on to the next page whatever HasNext says
EndOfPageIgnoringHasNext ==
    /\ wpc = "stubs"
    /\ pending = <<>>
    /\ page' = page + 1
    /\ wpc' = "loop"
    /\ UNCHANGED <<scraper, maxPages, backend, res, pending, all, wret, calls,
                   listVars, searchVars, enrichVars>>

\* scraper.go:75-79, 82-84: the range loop is over
EndOfPage ==
    /\ wpc = "stubs"
    /\ pending = <<>>
    /\ IF ~res.HasNext
       THEN Return(all, NoErr) /\ UNCHANGED page
       ELSE page' = page + 1 /\ wpc' = "loop" /\ UNCHANGED wret
    /\ UNCHANGED <<scraper, maxPages, backend, res, pending, all, calls,
                   listVars, searchVars, enrichVars>>

NextWalk ==
    \/ Start
    \/ CeilingReached
    \/ ListPageFails
    \/ ListPage
    \/ FetchDetailFails
    \/ FetchDetail
    \/ EndOfPage

SpecWalk == InitWalk /\ [][NextWalk]_vars

-----------------------------------------------------------------------------
(* The walk's requests and result *)

ListCalls   == SelectSeq(calls, LAMBDA c : c.kind = "list")
DetailCalls == SelectSeq(calls, LAMBDA c : c.kind = "detail")

NonEmptyIds(items) == SelectSeq(items, LAMBDA id : id # "")

\* the non-empty ids of the listed pages, page after page
RECURSIVE ListedIds(_)
ListedIds(lc) ==
    IF lc = <<>> THEN <<>> ELSE NonEmptyIds(Head(lc).items) \o ListedIds(Tail(lc))

IdsOf(ps) == [k \in DOMAIN ps |-> ps[k].ID]

Returned    == wpc = "done" /\ wret # None
ReturnedOK  == Returned /\ wret[1].err = NoErr

\* C1: detail fetches are issued in the order of the non-empty ids of the
\* pages listed so far (page after page, listing order within a page), and a
\* walk that returns without error returns exactly one profile per such id,
\* in that order, each the profile its detail fetch answered.
ProfilesInListingOrder ==
    LET want == ListedIds(ListCalls)
        dc   == DetailCalls
    IN  /\ Len(dc) <= Len(want)
        /\ \A k \in DOMAIN dc : dc[k].id = want[k]
        /\ ReturnedOK =>
              /\ Len(dc) = Len(want)
              /\ IdsOf(wret[1].profiles) = want
              /\ \A k \in DOMAIN dc : dc[k].got = <<wret[1].profiles[k]>>

\* a walk over two pages, one item without id, three profiles returned
ThreeProfilesFromTwoPages ==
    /\ ReturnedOK
    /\ Len(ListCalls) = 2
    /\ ListCalls[1].items = <<"b", "">>
    /\ ListCalls[2].items = <<"a", "c">>
    /\ IdsOf(wret[1].profiles) = <<"b", "a", "c">>

\* C2: listing calls ask for pages 1, 2, 3, ...; no listing call follows a
\* page whose continuation flag is false (its item count differs from the
\* page size); a walk ended by such a page has fetched every entry of it.  With
\* page size 2, page 1 = [a, b] and page 2 = [c], there are exactly two
\* listing calls and the result is the profiles a, b, c.
WalkStopsAfterShortPage ==
    LET lc == ListCalls IN
    /\ \A k \in DOMAIN lc : lc[k].page = k
    /\ \A k \in 1..(Len(lc) - 1) : lc[k].err = NoErr /\ Len(lc[k].items) = lc[k].size
    /\ (ReturnedOK /\ lc # <<>> /\ Len(lc[Len(lc)].items) # lc[Len(lc)].size) =>
          LET last == NonEmptyIds(lc[Len(lc)].items)
              dc   == DetailCalls
          IN  /\ Len(dc) >= Len(last)
              /\ \A k \in DOMAIN last : dc[Len(dc) - Len(last) + k].id = last[k]
              /\ last # <<>> => calls[Len(calls)].kind = "detail"
    /\ (Len(lc) >= 2 /\ lc[1].size = 2 /\ lc[1].items = <<"a", "b">>
          /\ lc[2].err = NoErr /\ lc[2].items = <<"c">>) =>
          /\ Len(lc) = 2
          /\ ReturnedOK => IdsOf(wret[1].profiles) = <<"a", "b", "c">>

\* the two-page scenario has run to its end
TwoPageScenarioDone ==
    /\ ReturnedOK
    /\ scraper.PageSize = 2
    /\ Len(ListCalls) = 2
    /\ ListCalls[1].items = <<"a", "b">>
    /\ ListCalls[2].items = <<"c">>
    /\ IdsOf(wret[1].profiles) = <<"a", "b", "c">>

\* C8: a failed listing call or detail fetch is the walk's last request, and
\* the walk returns that error with no profiles, whatever it had collected.
FailureDiscardsProfiles ==
    \A k \in DOMAIN calls :
        calls[k].err # NoErr =>
            /\ k = Len(calls)
            /\ wpc = "done"
            /\ wret = Some([profiles |-> <<>>, err |-> calls[k].err])

\* a detail fetch of the second page fails after three profiles were collected
FailureOnSecondPage ==
    /\ Returned
    /\ Len(ListCalls) = 2
    /\ Len(all) = 3
    /\ calls[Len(calls)].kind = "detail"
    /\ calls[Len(calls)].err # NoErr
    /\ wret[1].profiles = <<>>

\* C10: no detail fetch is ever issued with an empty attendee id: a listing
\* item without id gives neither a detail request nor a profile.
NoDetailFetchForEmptyId ==
    /\ \A k \in DOMAIN calls : calls[k].kind = "detail" => calls[k].id # ""
    /\ Len(DetailCalls) <= Len(ListedIds(ListCalls))
    /\ \A k \in DOMAIN all : all[k].ID # ""
    /\ Returned => Len(wret[1].profiles) <= Len(ListedIds(ListCalls))

\* a page of items without id among items with one has been walked
ItemsWithoutIdWalked ==
    /\ ReturnedOK
    /\ Len(ListCalls) = 1
    /\ ListCalls[1].items = <<"", "a">>
    /\ IdsOf(wret[1].profiles) = <<"a">>
    /\ Len(DetailCalls) = 1

-----------------------------------------------------------------------------
(* Matcher.EnrichProfiles *)

\* the errors searchOnce returns: transport, status, decoding
SearchErrs == {"request", "search status", "decode"}

\* fmt.Sprintf("%q", s) of a text without characters to escape
Quoted(s) == <<"\"">> \o s \o <<"\"">>
Site == <<" ", "site:linkedin.com">>

\* findLinkedInCandidates with the name-and-company query tried last
QueriesCompanyLast(p) ==
    LET name    == TrimSpace(p.Name)
        company == TrimSpace(p.Company)
    IN  (IF name # <<>> THEN <<Quoted(name) \o Site, name \o Site>> ELSE <<>>)
        \o (IF name # <<>> /\ company # <<>>
            THEN <<Quoted(name) \o <<" ">> \o Quoted(company) \o Site>> ELSE <<>>)

\* part_001:374-384: the queries of findLinkedInCandidates
Queries(p) ==
    LET name    == TrimSpace(p.Name)
        company == TrimSpace(p.Company)
    IN  (IF name # <<>> /\ company # <<>>
         THEN <<Quoted(name) \o <<" ">> \o Quoted(company) \o Site>> ELSE <<>>)
        \o (IF name # <<>> THEN <<Quoted(name) \o Site, name \o Site>> ELSE <<>>)

\* an enrichment that skips only the profiles without a name
SkipsBlankNameOnly(p) == TrimSpace(p.Name) = <<>>

\* part_001:332: the profiles EnrichProfiles passes over
Skips(p) == p.LinkedInURL # <<>> \/ TrimSpace(p.Name) = <<>>

\* part_001:342-348: the candidates assigned to a profile
Assign(p, urls) ==
    IF Len(urls) > 0
    THEN [p EXCEPT !.LinkedInURL = urls[1],
                   !.PossibleLinkedInURLs = IF Len(urls) > 1 THEN Tail(urls) ELSE @]
    ELSE p

SearchCall(i, query, err, urls) == [i |-> i, query |-> query, err |-> err, urls |-> urls]

\* the profiles handed to EnrichProfiles: with and without company, with a
\* padded name, without a name, with a LinkedIn URL already
InputProfiles ==
    { Profile("1", <<"Ann">>, <<"Co">>, <<>>, <<>>),
      Profile("2", <<" ", "Bob", " ">>, <<" ">>, <<>>, <<>>),
      Profile("3", <<" ">>, <<"Co">>, <<>>, <<>>),
      Profile("4", <<"Dan">>, <<"Co">>, Li(<<"in/", "dan">>), <<Li(<<"in/", "d2">>)>>),
      Profile("5", <<>>, <<>>, Li(<<"in/", "eve">>), <<>>) }

\* links a search response of the enrichment may carry
EnrichLinks ==
    { Li(<<"in/", "y">>), Li(<<"company/", "x">>), <<"https://", "example.com/">> }

EReturn(ps, err) ==
    /\ eret' = Some([profiles |-> ps, err |-> err])
    /\ epc' = "done"

InitEnrich ==
    /\ enabled \in BOOLEAN
    /\ profiles \in SeqUpTo(InputProfiles, MaxProfiles)
    /\ epc = "start"
    /\ out = <<>>
    /\ ei = 0
    /\ queries = <<>>
    /\ searches = <<>>
    /\ eret = None
    /\ ListIdle /\ SearchIdle /\ WalkIdle

\* part_001:323-329
EnrichStart ==
    /\ epc = "start"
    /\ IF ~enabled
       THEN EReturn(profiles, NoErr) /\ UNCHANGED <<out, ei>>
       ELSE out' = profiles /\ ei' = 1 /\ epc' = "loop" /\ UNCHANGED eret
    /\ UNCHANGED <<enabled, profiles, queries, searches, listVars, searchVars, walkVars>>

\* part_001:331, 359: the range loop is over
EnrichReturn ==
    /\ epc = "loop"
    /\ ei > Len(out)
    /\ EReturn(out, NoErr)
    /\ UNCHANGED <<enabled, profiles, out, ei, queries, searches,
                   listVars, searchVars, walkVars>>

\* part_001:332-334
SkipProfile ==
    /\ epc = "loop"
    /\ ei <= Len(out)
    /\ Skips(out[ei])
    /\ ei' = ei + 1
    /\ UNCHANGED <<enabled, profiles, epc, out, queries, searches, eret,
                   listVars, searchVars, walkVars>>

\* part_001:336, 374-387: findLinkedInCandidates builds its queries
BeginSearch ==
    /\ epc = "loop"
    /\ ei <= Len(out)
    /\ ~Skips(out[ei])
    /\ IF Queries(out[ei]) = <<>>
       THEN ei' = ei + 1 /\ UNCHANGED <<epc, queries>>
       ELSE queries' = Queries(out[ei]) /\ epc' = "search" /\ UNCHANGED ei
    /\ UNCHANGED <<enabled, profiles, out, searches, eret, listVars, searchVars, walkVars>>

\* an enrichment that passes over a profile whose search fails
SearchFailsSkippingProfile ==
    /\ epc = "search"
    /\ \E e \in SearchErrs :
          searches' = Append(searches, SearchCall(ei, Head(queries), e, <<>>))
    /\ ei' = ei + 1
    /\ queries' = <<>>
    /\ epc' = "loop"
    /\ UNCHANGED <<enabled, profiles, out, eret, listVars, searchVars, walkVars>>

\* part_001:392-395, 336-341: searchOnce fails
SearchFails ==
    /\ epc = "search"
    /\ \E e \in SearchErrs :
          /\ searches' = Append(searches, SearchCall(ei, Head(queries), e, <<>>))
          /\ EReturn(out, e)
    /\ UNCHANGED <<enabled, profiles, out, ei, queries, listVars, searchVars, walkVars>>

\* part_001:392-404, 342-352: searchOnce answers
Search ==
    /\ epc = "search"
    /\ \E items \in SeqUpTo(EnrichLinks, MaxLinks) :
          LET urls == Candidates(items) IN
          /\ searches' = Append(searches, SearchCall(ei, Head(queries), NoErr, urls))
          /\ IF Len(urls) > 0 \/ Tail(queries) = <<>>
             THEN /\ out' = [out EXCEPT ![ei] = Assign(@, urls)]
                  /\ ei' = ei + 1
                  /\ queries' = <<>>
                  /\ epc' = "loop"
             ELSE /\ queries' = Tail(queries)
                  /\ UNCHANGED <<out, ei, epc>>
    /\ UNCHANGED <<enabled, profiles, eret, listVars, searchVars, walkVars>>

NextEnrich ==
    \/ EnrichStart
    \/ EnrichReturn
    \/ SkipProfile
    \/ BeginSearch
    \/ SearchFails
    \/ Search

SpecEnrich == InitEnrich /\ [][NextEnrich]_vars

-----------------------------------------------------------------------------
(* The enrichment's requests and result *)

\* the search requests issued for the profile at index j
SearchesFor(j) == SelectSeq(searches, LAMBDA c : c.i = j)

EnrichRunning == enabled /\ epc \in {"loop", "search", "done"}
EnrichReturned == epc = "done" /\ eret # None

Range(seq) == { seq[k] : k \in DOMAIN seq }

\* C4: in an enabled pass, a profile whose LinkedInURL is set on input stays
\* as it was, in the working copy and in the result, and no search request is
\* issued for a profile whose LinkedInURL is set or whose trimmed name is empty.
SetUrlAndBlankNameUntouched ==
    EnrichRunning =>
        \A j \in DOMAIN profiles :
            /\ profiles[j].LinkedInURL # <<>> =>
                  /\ out[j] = profiles[j]
                  /\ EnrichReturned => eret[1].profiles[j] = profiles[j]
            /\ (profiles[j].LinkedInURL # <<>> \/ TrimSpace(profiles[j].Name) = <<>>) =>
                  SearchesFor(j) = <<>>

\* a pass over a profile with a LinkedIn URL and a profile that got one
PassOverSetUrlAndEnriched ==
    /\ enabled
    /\ EnrichReturned
    /\ Len(profiles) = 2
    /\ profiles[1].ID = "4"
    /\ profiles[2].ID = "1"
    /\ eret[1].profiles[1] = profiles[1]
    /\ eret[1].profiles[2].LinkedInURL # <<>>

\* the query variants of a profile, in the order of the claim
NameAndCompanyVariant(p) ==
    Quoted(TrimSpace(p.Name)) \o <<" ">> \o Quoted(TrimSpace(p.Company)) \o Site
QuotedNameVariant(p) == Quoted(TrimSpace(p.Name)) \o Site
PlainNameVariant(p)  == TrimSpace(p.Name) \o Site
Variants(p) ==
    IF TrimSpace(p.Name) # <<>> /\ TrimSpace(p.Company) # <<>>
    THEN <<NameAndCompanyVariant(p), QuotedNameVariant(p), PlainNameVariant(p)>>
    ELSE <<QuotedNameVariant(p), PlainNameVariant(p)>>

\* C5: the search requests of a profile are the query variants (i) quoted name
\* and quoted company, when both are non-blank, (ii) quoted name, (iii) plain
\* name, in this order and one request each; every request before the last
\* one answered with zero candidates, and candidates found by the last one
\* become the profile's LinkedInURL and PossibleLinkedInURLs.
VariantsTriedInOrder ==
    \A j \in DOMAIN profiles :
        LET tried == SearchesFor(j) IN
        /\ Len(tried) <= Len(Variants(profiles[j]))
        /\ \A k \in DOMAIN tried : tried[k].query = Variants(profiles[j])[k]
        /\ \A k \in 1..(Len(tried) - 1) : tried[k].err = NoErr /\ tried[k].urls = <<>>
        /\ (tried # <<>> /\ tried[Len(tried)].urls # <<>>) =>
              /\ out[j].LinkedInURL = Head(tried[Len(tried)].urls)
              /\ Len(tried[Len(tried)].urls) > 1 =>
                    out[j].PossibleLinkedInURLs = Tail(tried[Len(tried)].urls)

\* the third variant of a profile with name and company found two candidates
ThirdVariantHit ==
    /\ Len(profiles) >= 1
    /\ profiles[1].ID = "1"
    /\ Len(SearchesFor(1)) = 3
    /\ Len(SearchesFor(1)[3].urls) = 2
    /\ out[1].LinkedInURL = SearchesFor(1)[3].urls[1]

\* the candidates a finished search of the profile at index j found
FoundFor(j) ==
    LET tried == SearchesFor(j) IN
    IF tried = <<>> THEN <<>> ELSE tried[Len(tried)].urls

\* C6: a failed search request is the last one of the pass; the pass returns
\* its error with a sequence as long as the input, in the input's order, where
\* the profiles before the failing one carry what their searches found and
\* the failing profile and the later ones are as on input.
SearchFailureKeepsPartialResult ==
    \A k \in DOMAIN searches :
        searches[k].err # NoErr =>
            /\ k = Len(searches)
            /\ EnrichReturned
            /\ eret[1].err = searches[k].err
            /\ Len(eret[1].profiles) = Len(profiles)
            /\ \A m \in DOMAIN profiles :
                  eret[1].profiles[m] =
                      IF m < searches[k].i
                      THEN Assign(profiles[m], FoundFor(m))
                      ELSE profiles[m]

\* the search of the second profile fails after the first one was enriched
FailureAfterEnrichedProfile ==
    /\ EnrichReturned
    /\ eret[1].err # NoErr
    /\ Len(profiles) = 2
    /\ searches[Len(searches)].i = 2
    /\ eret[1].profiles[1].LinkedInURL # <<>>
    /\ profiles[1].LinkedInURL = <<>>
    /\ eret[1].profiles[1].PossibleLinkedInURLs # <<>>
    /\ eret[1].profiles[2] = profiles[2]

\* C7: after enrichment no profile's PossibleLinkedInURLs includes the value
\* of its LinkedInURL, whatever links the searches returned.
PossibleExcludesPrimary ==
    EnrichReturned =>
        \A j \in DOMAIN eret[1].profiles :
            eret[1].profiles[j].LinkedInURL \notin
                Range(eret[1].profiles[j].PossibleLinkedInURLs)

-----------------------------------------------------------------------------
(* The page-count ceiling *)

\* the last listing call was answered with stubs and a true continuation flag
LastPageReportsMore ==
    LET lc == ListCalls IN
    /\ lc # <<>>
    /\ lc[Len(lc)].err = NoErr
    /\ NonEmptyIds(lc[Len(lc)].items) # <<>>
    /\ Len(lc[Len(lc)].items) = lc[Len(lc)].size

\* C11: with maxPages > 0 the listing calls are for pages 1..maxPages at
\* most, and a walk whose pages all report more pages returns after maxPages
\* listing calls, without error, the profiles of those pages; with
\* maxPages <= 0 the ceiling is never reached: a walk returns without error
\* only after a page without stubs or with a false continuation flag.
CeilingLimitsListingCalls ==
    LET lc == ListCalls IN
    /\ maxPages > 0 =>
          /\ Len(lc) <= maxPages
          /\ \A k \in DOMAIN lc : lc[k].page \in 1..maxPages
          /\ (ReturnedOK /\ LastPageReportsMore) =>
                /\ Len(lc) = maxPages
                /\ IdsOf(wret[1].profiles) = ListedIds(lc)
          /\ (wpc = "loop" /\ page > maxPages) => ENABLED CeilingReached
    /\ maxPages <= 0 =>
          /\ ~ENABLED CeilingReached
          /\ ReturnedOK => ~LastPageReportsMore
          /\ (wpc = "loop" /\ page <= MaxPage) => ENABLED ListPage

\* two full pages under a ceiling of two: the walk returns their profiles
CeilingStopsAfterTwoFullPages ==
    /\ maxPages = 2
    /\ ReturnedOK
    /\ LastPageReportsMore
    /\ Len(ListCalls) = 2
    /\ scraper.PageSize = 2
    /\ Len(wret[1].profiles) = 4

-----------------------------------------------------------------------------
(* An unlimited walk over a backend that holds a fixed list of attendees and
   serves it without errors *)

\* scraper.go:27-29: the page size the walk asks for
EffectivePageSize(size) == IF size <= 0 THEN DefaultPageSize ELSE size

\* the listing calls a walk over n attendees needs stay within the page cap
WithinPageCap(n, size) == n \div EffectivePageSize(size) + 1 <= MaxPage

InitServed ==
    /\ scraper \in [ClientNil : {FALSE}, EventID : {"AMS25"}, PageSize : PageSizes]
    /\ maxPages \in {-1, 0}
    /\ backend \in { [consistent |-> TRUE, attendees |-> att] :
                        att \in SeqUpTo(Ids \ {""}, MaxAttendees) }
    /\ WithinPageCap(Len(backend.attendees), scraper.PageSize)
    /\ wpc = "start"
    /\ page = 0
    /\ res = [Profiles |-> <<>>, HasNext |-> FALSE]
    /\ pending = <<>>
    /\ all = <<>>
    /\ wret = None
    /\ calls = <<>>
    /\ ListIdle /\ SearchIdle /\ EnrichIdle

NextServed ==
    \/ Start
    \/ ListPage
    \/ FetchDetail
    \/ EndOfPage

\* the walk is sequential code that blocks on nothing but its requests, which
\* this backend always answers: a step that can be taken is taken
SpecServed == InitServed /\ [][NextServed]_vars /\ WF_vars(NextServed)

\* what C12 says of the listing calls made so far, and of the result
ServedWalkSafe ==
    LET n  == Len(backend.attendees)
        s  == scraper.PageSize
        lc == ListCalls
    IN  /\ \A k \in DOMAIN calls : calls[k].err = NoErr
        /\ \A k \in 1..(Len(lc) - 1) : Len(lc[k].items) = lc[k].size
        /\ Returned =>
              /\ wret[1].err = NoErr
              /\ IdsOf(wret[1].profiles) = backend.attendees
              /\ Len(wret[1].profiles) = n
              /\ Len(lc[Len(lc)].items) < s
              /\ IF n > 0 /\ n % s = 0
                 THEN /\ Len(lc) = n \div s + 1
                      /\ Len(lc[n \div s].items) = s
                      /\ ListProfiles(lc[n \div s].items, s).HasNext
                      /\ lc[n \div s + 1].items = <<>>
                 ELSE /\ Len(lc) = n \div s + 1
                      /\ \A k \in DOMAIN lc : Len(lc[k].items) < s => k = Len(lc)

\* C12: an unlimited walk over a backend that serves N attendees with
\* non-empty ids in consistent pages of size s, without errors, terminates
\* and returns the N profiles; when N is a positive multiple of s the last
\* full page reports HasNext and one more listing call, answered with an
\* empty page, ends the walk after N/s + 1 listing calls; otherwise no listing
\* call follows the first page that is not full.
ServedWalkTerminatesWithAll == <>(wpc = "done") /\ []ServedWalkSafe

\* four attendees in pages of two: two full pages and an empty third one
ExtraEmptyPageCall ==
    /\ backend.consistent
    /\ Len(backend.attendees) = 4
    /\ scraper.PageSize = 2
    /\ ReturnedOK
    /\ Len(ListCalls) = 3
    /\ ListCalls[3].items = <<>>
    /\ Len(wret[1].profiles) = 4

====
